---- MODULE Spec2Model ----
(***************************************************************************)
(* ShoreSquad front end (NEA build, src/unnamed/part_000): the weather     *)
(* pipeline displayWeather / fetchWeatherForecast / fetchCurrentTemp /     *)
(* getCleanupRecommendation, the localStorage helpers and appState.        *)
(*                                                                         *)
(* JavaScript values are modelled as follows.  An object is a record (a    *)
(* function on field names): a missing field is a name outside DOMAIN.     *)
(* An array is a sequence.  null/undefined is the record Null.  A string   *)
(* is a TLA+ string; toLowerCase and includes work on its characters.      *)
(* Air-temperature readings are numbers with one decimal, held in tenths   *)
(* of a degree (284 is 28.4); forecast temperatures are whole degrees.     *)
(* A date is the day of December 2025 of an ISO date "2025-12-dd".         *)
(***************************************************************************)
EXTENDS Integers, Sequences, FiniteSets, TLC

VARIABLES
    timeZone,         \* the time zone of the host the page runs on
    initialized,      \* appState.initialized
    currentWeather,   \* appState.currentWeather
    localStorage,     \* the item stored under APP_CONFIG.storageKey
    weatherWidget,    \* what #weatherWidget shows (its innerHTML)
    calls,            \* displayWeather calls in flight, oldest first
    eventsGrid,       \* #eventsGrid and the timer initApp sets for it
    recInput,         \* condition text (as words) and high temperature of a
                      \* getCleanupRecommendation call, Null when there is none
    recOutput,        \* << >>, or <<message>> once the call has returned
    script,           \* the responses both endpoints are mocked with, and the
                      \* number of calls started against them
    renders,          \* the render results observed so far, in call order
    storeOp,          \* the last saveToStorage call made directly, with what
                      \* loadFromStorage then returned; Null when there is none
    userLocation,     \* appState.userLocation
    geoRequests,      \* getCurrentPosition requests awaiting their callback
    toast,            \* #toast: whether it has class 'show', its message, and
                      \* for the showToast call that raised it the time its own
                      \* timer is due and whether the user has closed it since
    timers,           \* due times of the pending timers set by showToast,
                      \* one per call, in the order they were set
    now,              \* time since initApp, in seconds
    navListActive,    \* whether .nav-list has class 'active'
    ariaExpanded,     \* attribute aria-expanded of .nav-toggle
    activeLinks       \* the nav links that have class 'active'

pageVars == <<initialized, currentWeather, localStorage, weatherWidget, calls,
              eventsGrid>>
recVars == <<recInput, recOutput>>
seqVars == <<script, renders>>
storeVars == <<storeOp>>
uiVars == <<userLocation, geoRequests, toast, timers, now>>
navVars == <<navListActive, ariaExpanded, activeLinks>>
restVars == <<storeVars, uiVars, navVars>>

envVars == <<timeZone>>

vars == <<envVars, pageVars, recVars, seqVars, restVars>>

(***************************************************************************)
(* Bounds of the model.                                                    *)
(***************************************************************************)
MaxInFlight == 2   \* displayWeather calls awaiting their requests at once
MaxDays == 2       \* longest forecast list in a primary payload
MaxWords == 3      \* longest condition text, in words
MaxFaultyInFlight == 1   \* calls in flight at once when the store may fail
MaxGeoInFlight == 1      \* getCurrentPosition requests in flight at once
MaxTime == 4             \* seconds of the page's life that are followed
MaxTimers == 3           \* timers of showToast pending at once
MaxLinks == 3            \* elements matching '.nav-link, .bottom-nav-item'

(***************************************************************************)
(* Strings.                                                                *)
(***************************************************************************)
UpperChars == "ABCDEFGHIJKLMNOPQRSTUVWXYZ"
LowerChars == "abcdefghijklmnopqrstuvwxyz"

\* The lower-case letter of each upper-case letter.
LowerOf ==
    [c \in {SubSeq(UpperChars, i, i) : i \in 1..26} |->
        LET i == CHOOSE j \in 1..26 : SubSeq(UpperChars, j, j) = c
        IN  SubSeq(LowerChars, i, i)]

toLowerChar(c) == IF c \in DOMAIN LowerOf THEN LowerOf[c] ELSE c

RECURSIVE toLowerCase(_)
toLowerCase(s) ==
    IF Len(s) = 0 THEN ""
    ELSE toLowerChar(SubSeq(s, 1, 1)) \o toLowerCase(SubSeq(s, 2, Len(s)))

includes(s, p) ==
    \E i \in 1..(Len(s) - Len(p) + 1) : SubSeq(s, i, i + Len(p) - 1) = p

(***************************************************************************)
(* Values.                                                                 *)
(***************************************************************************)
Null == [type |-> "null"]
Pending == [type |-> "pending"]

StorageKey == "shoresquad_data"

\* A fetch that rejects, one that answers with a non-OK status, and one that
\* answers OK with a body.  NotJSON is a body response.json() rejects on.
NetworkError == [rejected |-> TRUE]
HttpError == [rejected |-> FALSE, ok |-> FALSE]
HttpOk(body) == [rejected |-> FALSE, ok |-> TRUE, body |-> body]
NotJSON == [type |-> "not json"]

DayCatalog ==
    << [forecast |-> "Thundery Showers",
        temperature |-> [low |-> 25, high |-> 31],
        relative_humidity |-> [low |-> 65, high |-> 95]],
       [forecast |-> "Fair & Warm",
        temperature |-> [low |-> 26, high |-> 34],
        relative_humidity |-> [low |-> 55, high |-> 85]],
       [forecast |-> "Partly Cloudy",
        temperature |-> [low |-> 25, high |-> 32],
        relative_humidity |-> [low |-> 60, high |-> 90]],
       [forecast |-> "Afternoon showers",
        temperature |-> [low |-> 24, high |-> 33],
        relative_humidity |-> [low |-> 70, high |-> 100]] >>

\* The k-th day of the n-day forecast: dated 5 December onwards.
ForecastDay(n, k) ==
    LET d == DayCatalog[((n + k - 2) % Len(DayCatalog)) + 1]
    IN  [date |-> 4 + k, forecast |-> d.forecast,
         temperature |-> d.temperature,
         relative_humidity |-> d.relative_humidity]

ForecastDays(n) == [k \in 1..n |-> ForecastDay(n, k)]

\* Primary payloads: the 4-day-weather-forecast answer and its degenerate
\* shapes.  Odd-length forecasts carry the item's general forecast.
ForecastNoItems == [api_info |-> "healthy"]
ForecastEmptyItems == [items |-> << >>]
ForecastNoForecasts == [items |-> << [timestamp |-> 5] >>]
ForecastPayload(n) ==
    IF n % 2 = 1
    THEN [items |-> << [general |-> [forecast |-> "Thundery Showers"],
                        forecasts |-> ForecastDays(n)] >>]
    ELSE [items |-> << [forecasts |-> ForecastDays(n)] >>]

ForecastBodies ==
    {NotJSON, ForecastNoItems, ForecastEmptyItems, ForecastNoForecasts}
        \cup {ForecastPayload(n) : n \in 0..MaxDays}

ForecastResponses ==
    {NetworkError, HttpError} \cup {HttpOk(b) : b \in ForecastBodies}

\* Secondary payloads: the air-temperature answer and its degenerate shapes.
TempNoItems == [api_info |-> "healthy"]
TempEmptyItems == [items |-> << >>]
TempNoReadings == [items |-> << [timestamp |-> 5] >>]
TempPayload(readings) == [items |-> << [readings |-> readings] >>]
TempReadings ==
    { << >>,
      << [station_id |-> "S50", value |-> 0] >>,
      << [station_id |-> "S50", value |-> 284],
         [station_id |-> "S107", value |-> 301] >> }

TempBodies ==
    {TempNoItems, TempEmptyItems, TempNoReadings}
        \cup {TempPayload(r) : r \in TempReadings}

TempResponses ==
    {NetworkError, HttpError} \cup {HttpOk(b) : b \in TempBodies}

(***************************************************************************)
(* localStorage helpers.  The stored item is Null (no item) or the JSON    *)
(* text of an object, written JSONstringify(object).                       *)
(***************************************************************************)
EmptyObject == [k \in {} |-> Null]

JSONstringify(value) == [json |-> value]
JSONparse(text) == text.json

\* obj[key] = data
SetField(obj, key, data) ==
    [k \in DOMAIN obj \cup {key} |-> IF k = key THEN data ELSE obj[k]]

\* A stored item that is not JSON text: JSON.parse throws on it.
Corrupt == [type |-> "corrupt"]

\* What the browser does to one storage access: nothing, getItem throws
\* (storage denied), setItem throws (quota exceeded).
StorageFaults == {"none", "getItem throws", "setItem throws"}

\* JSON.parse(localStorage.getItem(storageKey)) || {}
StorageData(item) == IF item = Null THEN EmptyObject ELSE JSONparse(item)

\* Variant: saveToStorage without its try/catch.
saveToStorage_NoCatch(item, key, data, fault) ==
    IF fault # "none" \/ item = Corrupt
    THEN [returned |-> FALSE, threw |-> TRUE, item |-> item]
    ELSE [returned |-> TRUE, threw |-> FALSE,
          item |-> JSONstringify(SetField(StorageData(item), key, data))]

\* saveToStorage(key, data): what it returns, whether it throws (never), and
\* the item it leaves under storageKey.
saveToStorage(item, key, data, fault) ==
    IF fault # "none" \/ item = Corrupt
    THEN [returned |-> FALSE, threw |-> FALSE, item |-> item]
    ELSE [returned |-> TRUE, threw |-> FALSE,
          item |-> JSONstringify(SetField(StorageData(item), key, data))]

\* JavaScript truthiness of a stored value.
\* JSON scalars, each tagged by its type.
JSONNumber(n) == [number |-> n]
JSONBoolean(b) == [boolean |-> b]
JSONString(str) == [string |-> str]

\* The falsy values of JavaScript that JSON can carry.
Falsy == {Null, JSONNumber(0), JSONBoolean(FALSE), JSONString("")}

Truthy(value) == value \notin Falsy

\* loadFromStorage(key): storageData[key] || null, or null from the catch.
loadFromStorage(item, key, fault) ==
    IF fault = "getItem throws" \/ item = Corrupt
    THEN [returned |-> Null, threw |-> FALSE]
    ELSE LET storageData == StorageData(item)
         IN  [returned |-> IF key \in DOMAIN storageData /\ Truthy(storageData[key])
                           THEN storageData[key]
                           ELSE Null,
              threw |-> FALSE]

(***************************************************************************)
(* fetchWeatherForecast and fetchCurrentTemp, as functions of the response *)
(* their request settles with.                                             *)
(***************************************************************************)
\* The try block runs to "const data = await response.json()" and past it.
ResponseHasData(resp) ==
    /\ ~resp.rejected
    /\ resp.ok
    /\ resp.body # NotJSON

\* The value the async function resolves with (it never rejects).
fetchWeatherForecast(resp) == IF ResponseHasData(resp) THEN resp.body ELSE Null
fetchCurrentTemp(resp) == IF ResponseHasData(resp) THEN resp.body ELSE Null

\* Variant: the two writes sit after the try/catch and run on every path,
\* with the value returned.
fetchWeatherForecastWrites_OnEveryPath(resp) == << fetchWeatherForecast(resp) >>

\* The values lines 151-152 write to appState.currentWeather and to the
\* store, in order: the parsed body once, or nothing when the catch ran.
fetchWeatherForecastWrites(resp) ==
    IF ResponseHasData(resp) THEN << resp.body >> ELSE << >>

(***************************************************************************)
(* Rendering.                                                              *)
(***************************************************************************)
getWeatherIcon(forecast) ==
    LET forecastLower == toLowerCase(forecast)
    IN  IF includes(forecastLower, "thunder") THEN "thunderstorm"
        ELSE IF includes(forecastLower, "rain") \/ includes(forecastLower, "shower")
             THEN "rain cloud"
        ELSE IF includes(forecastLower, "cloudy") THEN "cloud"
        ELSE IF includes(forecastLower, "partly cloudy") THEN "sun behind cloud"
        ELSE IF includes(forecastLower, "fair") \/ includes(forecastLower, "sunny")
             THEN "sun"
        ELSE IF includes(forecastLower, "hazy") THEN "fog"
        ELSE "sun behind small cloud"

HeatThreshold == 32

SevereMessage == "Not ideal for cleanup today. Stay safe and check back tomorrow!"
GearMessage == "Possible rain expected. Bring waterproof gear!"
HeatMessage == "Hot day ahead! Remember sunscreen, hat, and plenty of water."
PerfectMessage == "Perfect weather for a beach cleanup! Let's go!"
DefaultMessage == "Good conditions for cleanup. See you at the beach!"

\* Variant: the heat rule is tested before the rain rule.
getCleanupRecommendation_HeatFirst(todayForecast) ==
    LET forecastLower == toLowerCase(todayForecast.forecast)
        highTemp == todayForecast.temperature.high
    IN  IF includes(forecastLower, "thunder") \/ includes(forecastLower, "heavy rain")
        THEN SevereMessage
        ELSE IF highTemp > HeatThreshold THEN HeatMessage
        ELSE IF includes(forecastLower, "shower") \/ includes(forecastLower, "rain")
             THEN GearMessage
        ELSE IF includes(forecastLower, "fair") \/ includes(forecastLower, "sunny")
             THEN PerfectMessage
        ELSE DefaultMessage

\* Variant: the severe rule looks for 'thunder' only.
getCleanupRecommendation_NoHeavyRain(todayForecast) ==
    LET forecastLower == toLowerCase(todayForecast.forecast)
        highTemp == todayForecast.temperature.high
    IN  IF includes(forecastLower, "thunder")
        THEN SevereMessage
        ELSE IF includes(forecastLower, "shower") \/ includes(forecastLower, "rain")
             THEN GearMessage
        ELSE IF highTemp > HeatThreshold THEN HeatMessage
        ELSE IF includes(forecastLower, "fair") \/ includes(forecastLower, "sunny")
             THEN PerfectMessage
        ELSE DefaultMessage

\* Variant: the text is matched as it is, without toLowerCase.
getCleanupRecommendation_CaseSensitive(todayForecast) ==
    LET forecastLower == todayForecast.forecast
        highTemp == todayForecast.temperature.high
    IN  IF includes(forecastLower, "thunder") \/ includes(forecastLower, "heavy rain")
        THEN SevereMessage
        ELSE IF includes(forecastLower, "shower") \/ includes(forecastLower, "rain")
             THEN GearMessage
        ELSE IF highTemp > HeatThreshold THEN HeatMessage
        ELSE IF includes(forecastLower, "fair") \/ includes(forecastLower, "sunny")
             THEN PerfectMessage
        ELSE DefaultMessage

getCleanupRecommendation(todayForecast) ==
    LET forecastLower == toLowerCase(todayForecast.forecast)
        highTemp == todayForecast.temperature.high
    IN  IF includes(forecastLower, "thunder") \/ includes(forecastLower, "heavy rain")
        THEN SevereMessage
        ELSE IF includes(forecastLower, "shower") \/ includes(forecastLower, "rain")
             THEN GearMessage
        ELSE IF highTemp > HeatThreshold THEN HeatMessage
        ELSE IF includes(forecastLower, "fair") \/ includes(forecastLower, "sunny")
             THEN PerfectMessage
        ELSE DefaultMessage

\* Time zones a host may be set to: one east and one west of UTC.
TimeZones == {"Asia/Singapore", "America/Los_Angeles"}
WestOfUTC == timeZone = "America/Los_Angeles"

\* new Date(day.date) is midnight UTC of an ISO date; toLocaleDateString
\* renders it in the time zone of the host, where west of UTC it is still
\* the evening of the day before.  Day 0 of December is 30 November.
LocalDay(date) == IF WestOfUTC THEN date - 1 ELSE date

\* date.toLocaleDateString('en-SG', { weekday: 'short' }); 1 December 2025
\* is a Monday.
WeekdayNames == <<"Mon", "Tue", "Wed", "Thu", "Fri", "Sat", "Sun">>
weekdayShort(date) == WeekdayNames[((LocalDay(date) - 1) % 7) + 1]

\* date.toLocaleDateString('en-SG', { month: 'short', day: 'numeric' })
dateStr(date) ==
    IF LocalDay(date) = 0 THEN <<30, "Nov">> ELSE <<LocalDay(date), "Dec">>

\* Variant: the index test is off by one, index <= 1.
dayName_FirstTwoToday(day, index) ==
    IF index <= 1 THEN "Today" ELSE weekdayShort(day.date)

\* index === 0 ? 'Today' : weekday; index counts from 0
dayName(day, index) == IF index = 0 THEN "Today" ELSE weekdayShort(day.date)

forecastCard(day, index) ==
    [day |-> dayName(day, index),
     date |-> dateStr(day.date),
     icon |-> getWeatherIcon(day.forecast),
     high |-> day.temperature.high,
     low |-> day.temperature.low,
     desc |-> day.forecast,
     humidity |-> day.relative_humidity.high]

\* forecasts.map((day, index) => card)
forecastCards(forecasts) ==
    [k \in 1..Len(forecasts) |-> forecastCard(forecasts[k], k - 1)]

\* Math.round of a value held in tenths
MathRound(tenths) == (tenths + 5) \div 10

\* Line 208: the guard that throws 'No forecast data available'.
NoForecastData(forecastData) ==
    \/ forecastData = Null
    \/ "items" \notin DOMAIN forecastData
    \/ Len(forecastData.items) = 0

\* Variant: tempData.items is read without the "tempData &&" guard.
currentTempThrows_NoNullGuard(tempData) ==
    \/ tempData = Null
    \/ /\ "items" \in DOMAIN tempData
       /\ \/ Len(tempData.items) = 0
          \/ "readings" \notin DOMAIN tempData.items[1]

\* Lines 213-215 read tempData.items[0].readings.length: a TypeError when
\* items is an empty array or its first element has no readings.
currentTempThrows(tempData) ==
    /\ tempData # Null
    /\ "items" \in DOMAIN tempData
    /\ \/ Len(tempData.items) = 0
       \/ "readings" \notin DOMAIN tempData.items[1]

\* currentTemp: << >> for null, <<value>> for a reading.
currentTemp(tempData) ==
    IF /\ tempData # Null
       /\ "items" \in DOMAIN tempData
       /\ Len(tempData.items[1].readings) > 0
    THEN << tempData.items[1].readings[1].value >>
    ELSE << >>

\* Lines 221 and 252: forecasts.map on undefined, forecasts[0] on [].
forecastsThrow(forecastData) ==
    \/ "forecasts" \notin DOMAIN forecastData.items[1]
    \/ Len(forecastData.items[1].forecasts) = 0

displayWeatherThrows(forecastData, tempData) ==
    \/ NoForecastData(forecastData)
    \/ currentTempThrows(tempData)
    \/ forecastsThrow(forecastData)

InitialWidget == [tag |-> "initial"]

\* Variant: a failure that follows a failure is worded differently.
FailureRender_CountsRetries ==
    [tag |-> "failure",
     message |-> IF weatherWidget.tag = "failure"
                 THEN "Still unable to load weather forecast"
                 ELSE "Unable to load weather forecast",
     retry |-> TRUE]

FailureRender ==
    [tag |-> "failure", message |-> "Unable to load weather forecast",
     retry |-> TRUE]

SuccessRender(forecastData, tempData) ==
    LET forecasts == forecastData.items[1].forecasts
        temp == currentTemp(tempData)
        item == forecastData.items[1]
    IN  [tag |-> "success",
         currentTemp |-> IF temp # << >> /\ temp[1] # 0
                         THEN << MathRound(temp[1]) >> ELSE << >>,
         cards |-> forecastCards(forecasts),
         recommendation |-> getCleanupRecommendation(forecasts[1]),
         general |-> IF "general" \in DOMAIN item
                        /\ "forecast" \in DOMAIN item.general
                     THEN << item.general.forecast >> ELSE << >>]

\* What displayWeather assigns to weatherWidget.innerHTML once both of its
\* requests have settled.
displayWeatherRender(forecastData, tempData) ==
    IF displayWeatherThrows(forecastData, tempData)
    THEN FailureRender
    ELSE SuccessRender(forecastData, tempData)

(***************************************************************************)
(* The weather pipeline as a state machine.  A displayWeather call in      *)
(* flight is a frame holding, per request, Pending or the response it      *)
(* settled with.                                                           *)
(***************************************************************************)
NewCall ==
    [forecast |-> Pending, temp |-> Pending,
     forecastData |-> Pending, tempData |-> Pending]

\* Variant: a failed forecast request ends the wait at once, as a rejecting
\* promise would end Promise.all.
Settled_FailFast(call) ==
    /\ call.forecast # Pending
    /\ call.temp # Pending \/ call.forecast \in {NetworkError, HttpError}

Settled(call) == call.forecast # Pending /\ call.temp # Pending

\* A call whose Promise.all has resolved and whose continuation is queued as
\* a microtask: it runs before any other task (response, click, timer).
Joinable(i) == i \in 1..Len(calls) /\ Settled(calls[i])
MicrotaskQueued == \E i \in 1..Len(calls) : Joinable(i)

RemoveAt(seq, i) == SubSeq(seq, 1, i - 1) \o SubSeq(seq, i + 1, Len(seq))

\* getMockEvents(): the ids of the three events.
getMockEvents == <<1, 2, 3>>

\* #eventsGrid before initApp, and once initApp has set its timer.
EventsGridInitial == [timer |-> FALSE, cards |-> << >>]
EventsGridScheduled == [timer |-> TRUE, cards |-> << >>]

HostInit == timeZone \in TimeZones
RecIdle == recInput = Null /\ recOutput = << >>
SeqIdle == script = Null /\ renders = << >>
StoreIdle == storeOp = Null

\* #toast before any showToast call.
ToastHidden == [shown |-> FALSE, message |-> "", due |-> 0, closed |-> FALSE]

UiInitial ==
    /\ userLocation = Null
    /\ geoRequests = 0
    /\ toast = ToastHidden
    /\ timers = << >>
    /\ now = 0

\* The navigation as the page is taken to load it (index.html is not among
\* the sources): menu closed, aria-expanded "false", no link marked active.
NavInitial ==
    /\ navListActive = FALSE
    /\ ariaExpanded = "false"
    /\ activeLinks = {}

RestIdle == StoreIdle /\ UiInitial /\ NavInitial

\* Durations, in seconds: the default of showToast (3000 ms), the welcome
\* toast of initApp (2000 ms), the delay of displayEvents (1000 ms).
DefaultDuration == 3
WelcomeDuration == 2
EventsDelay == 1

\* showToast(message, duration), on the toast and timers given in ui: the
\* message is set, 'show' is added and a timer is set; no earlier timer is
\* cleared.
showToast(ui, message, duration) ==
    [toast |-> [shown |-> TRUE, message |-> message, due |-> now + duration,
                closed |-> FALSE],
     timers |-> Append(ui.timers, now + duration)]

Ui == [toast |-> toast, timers |-> timers]

PageInit ==
    /\ initialized = FALSE
    /\ currentWeather = Null
    /\ localStorage = Null
    /\ weatherWidget = InitialWidget
    /\ calls = << >>
    /\ eventsGrid = EventsGridInitial

Init == HostInit /\ PageInit /\ RecIdle /\ SeqIdle /\ RestIdle

\* initApp: loadFromStorage('userLocation') (its result is not used), the
\* first displayWeather call, the timer for displayEvents, the welcome
\* toast.  A throw of loadFromStorage would end initApp before displayWeather.
InitApp(fault) ==
    /\ ~initialized
    /\ ~loadFromStorage(localStorage, "userLocation", fault).threw
    /\ initialized' = TRUE
    /\ calls' = Append(calls, NewCall)
    /\ eventsGrid' = EventsGridScheduled
    /\ toast' = showToast(Ui, "Welcome to ShoreSquad!", WelcomeDuration).toast
    /\ timers' = showToast(Ui, "Welcome to ShoreSquad!", WelcomeDuration).timers
    /\ UNCHANGED <<envVars, currentWeather, localStorage, weatherWidget, recVars, seqVars,
                   storeVars, userLocation, geoRequests, now, navVars>>

\* Variant: the timer also refreshes the weather.
DisplayEventsTimer_Polls ==
    /\ eventsGrid.timer
    /\ ~MicrotaskQueued
    /\ eventsGrid' = [timer |-> FALSE, cards |-> getMockEvents]
    /\ calls' = IF Len(calls) < MaxInFlight THEN Append(calls, NewCall) ELSE calls
    /\ UNCHANGED <<envVars, initialized, currentWeather, localStorage, weatherWidget,
                   recVars, seqVars, restVars>>

\* The timer of initApp fires: displayEvents(events).
DisplayEventsTimer ==
    /\ eventsGrid.timer
    /\ ~MicrotaskQueued
    /\ eventsGrid' = [timer |-> FALSE, cards |-> getMockEvents]
    /\ UNCHANGED <<envVars, initialized, currentWeather, localStorage, weatherWidget,
                   calls, recVars, seqVars, restVars>>

\* Variant: a Retry click abandons the calls in flight.
ClickRetry_CancelsPrevious ==
    /\ weatherWidget.tag = "failure"
    /\ ~MicrotaskQueued
    /\ Len(calls) < MaxInFlight
    /\ calls' = << NewCall >>
    /\ UNCHANGED <<envVars, initialized, currentWeather, localStorage, weatherWidget,
                   eventsGrid, recVars, seqVars, restVars>>

\* A click on the Retry button of the failure render: displayWeather().
ClickRetry ==
    /\ weatherWidget.tag = "failure"
    /\ ~MicrotaskQueued
    /\ Len(calls) < MaxInFlight
    /\ calls' = Append(calls, NewCall)
    /\ UNCHANGED <<envVars, initialized, currentWeather, localStorage, weatherWidget,
                   eventsGrid, recVars, seqVars, restVars>>

\* The forecast request of call i settles: fetchWeatherForecast runs to its
\* return.  A throw of saveToStorage would land in the catch of
\* fetchWeatherForecast, which returns null.
ForecastResponse(i, resp, fault) ==
    /\ i \in 1..Len(calls)
    /\ ~MicrotaskQueued
    /\ calls[i].forecast = Pending
    /\ LET writes == fetchWeatherForecastWrites(resp)
       IN  IF writes # << >>
           THEN LET saved == saveToStorage(localStorage, "weatherForecast",
                                           writes[1], fault)
                IN  /\ currentWeather' = writes[1]
                    /\ localStorage' = saved.item
                    /\ calls' = [calls EXCEPT
                                   ![i].forecast = resp,
                                   ![i].forecastData =
                                       IF saved.threw THEN Null
                                       ELSE fetchWeatherForecast(resp)]
           ELSE /\ fault = "none"
                /\ calls' = [calls EXCEPT
                               ![i].forecast = resp,
                               ![i].forecastData = fetchWeatherForecast(resp)]
                /\ UNCHANGED <<envVars, currentWeather, localStorage>>
    /\ UNCHANGED <<envVars, initialized, weatherWidget, eventsGrid, recVars, seqVars, restVars>>

\* The air-temperature request of call i settles: fetchCurrentTemp runs to
\* its return.
TempResponse(i, resp) ==
    /\ i \in 1..Len(calls)
    /\ ~MicrotaskQueued
    /\ calls[i].temp = Pending
    /\ calls' = [calls EXCEPT ![i].temp = resp,
                              ![i].tempData = fetchCurrentTemp(resp)]
    /\ UNCHANGED <<envVars, initialized, currentWeather, localStorage, weatherWidget,
                   eventsGrid, recVars, seqVars, restVars>>

\* displayWeather resumes after "await Promise.all" and runs to its end.
DisplayWeatherResume(i) ==
    /\ Joinable(i)
    /\ weatherWidget' = displayWeatherRender(calls[i].forecastData,
                                             calls[i].tempData)
    /\ calls' = RemoveAt(calls, i)
    /\ UNCHANGED <<envVars, initialized, currentWeather, localStorage, eventsGrid,
                   recVars, seqVars, restVars>>

\* The page with a working store.
Next ==
    \/ InitApp("none")
    \/ DisplayEventsTimer
    \/ ClickRetry
    \/ \E i \in 1..MaxInFlight, resp \in ForecastResponses :
          ForecastResponse(i, resp, "none")
    \/ \E i \in 1..MaxInFlight, resp \in TempResponses : TempResponse(i, resp)
    \/ \E i \in 1..MaxInFlight : DisplayWeatherResume(i)

Spec == Init /\ [][Next]_vars

\* The page with a store that may hold a corrupt item and whose accesses may
\* throw.
InitFaulty ==
    /\ initialized = FALSE
    /\ currentWeather = Null
    /\ localStorage \in {Null, Corrupt}
    /\ weatherWidget = InitialWidget
    /\ calls = << >>
    /\ eventsGrid = EventsGridInitial
    /\ RecIdle
    /\ SeqIdle
    /\ RestIdle
    /\ HostInit

NextFaulty ==
    \/ \E fault \in StorageFaults : InitApp(fault)
    \/ DisplayEventsTimer
    \/ (Len(calls) < MaxFaultyInFlight /\ ClickRetry)
    \/ \E i \in 1..MaxInFlight, resp \in ForecastResponses, fault \in StorageFaults :
          ForecastResponse(i, resp, fault)
    \/ \E i \in 1..MaxInFlight, resp \in TempResponses : TempResponse(i, resp)
    \/ \E i \in 1..MaxInFlight : DisplayWeatherResume(i)

SpecFaulty == InitFaulty /\ [][NextFaulty]_vars

(***************************************************************************)
(* displayWeather called twice, one call after the other, with both        *)
(* endpoints mocked to answer every request alike.  The page starts with   *)
(* whatever an earlier session left in appState and in the store.          *)
(***************************************************************************)
InitSeq ==
    /\ initialized = TRUE
    /\ currentWeather \in {Null, ForecastPayload(1)}
    /\ localStorage \in {Null, Corrupt,
                          JSONstringify([weatherForecast |-> ForecastPayload(1)])}
    /\ weatherWidget = InitialWidget
    /\ calls = << >>
    /\ eventsGrid = EventsGridInitial
    /\ RecIdle
    /\ script \in [forecast : ForecastResponses, temp : TempResponses, started : {0}]
    /\ renders = << >>
    /\ RestIdle
    /\ HostInit

\* displayWeather(), once the previous call has ended and been observed.
SeqCall ==
    /\ calls = << >>
    /\ Len(renders) = script.started
    /\ script.started < 2
    /\ script' = [script EXCEPT !.started = @ + 1]
    /\ calls' = << NewCall >>
    /\ UNCHANGED <<envVars, initialized, currentWeather, localStorage, weatherWidget,
                   eventsGrid, recVars, renders, restVars>>

\* The content of the widget is read once the call has ended.
SeqObserve ==
    /\ calls = << >>
    /\ Len(renders) < script.started
    /\ renders' = Append(renders, weatherWidget)
    /\ UNCHANGED <<envVars, pageVars, recVars, script, restVars>>

NextSeq ==
    \/ SeqCall
    \/ ForecastResponse(1, script.forecast, "none")
    \/ TempResponse(1, script.temp)
    \/ DisplayWeatherResume(1)
    \/ SeqObserve

SpecSeq == InitSeq /\ [][NextSeq]_vars

(***************************************************************************)
(* getCleanupRecommendation on its own: the inputs are condition texts of  *)
(* up to MaxWords words and high temperatures around the heat threshold.   *)
(***************************************************************************)
Vocabulary ==
    {"Thundery", "Heavy", "HEAVY", "Rain", "Shower", "Sunny", "SUNNY",
     "Clear", "Fair", "Cloudy"}

HighTemps == {29, 32, 33, 34}

WordSeqs == UNION {[1..n -> Vocabulary] : n \in 0..MaxWords}

RECURSIVE JoinWords(_)
JoinWords(words) ==
    IF Len(words) = 0 THEN ""
    ELSE IF Len(words) = 1 THEN words[1]
    ELSE words[1] \o " " \o JoinWords(Tail(words))

\* forecasts[0] as getCleanupRecommendation receives it
TodayForecast(input) ==
    [forecast |-> JoinWords(input.words), temperature |-> [high |-> input.high]]

InitRec ==
    /\ PageInit
    /\ SeqIdle
    /\ RestIdle
    /\ HostInit
    /\ recInput \in [words : WordSeqs, high : HighTemps]
    /\ recOutput = << >>

CallCleanupRecommendation ==
    /\ recInput # Null
    /\ recOutput = << >>
    /\ recOutput' = << getCleanupRecommendation(TodayForecast(recInput)) >>
    /\ UNCHANGED <<envVars, pageVars, seqVars, restVars, recInput>>

NextRec == CallCleanupRecommendation

SpecRec == InitRec /\ [][NextRec]_vars

(***************************************************************************)
(* Properties of the weather pipeline.                                     *)
(***************************************************************************)
\* The forecast days a primary response carries: << >> unless it answered
\* OK with a first item that has a forecasts list.
DaysOf(resp) ==
    IF /\ "rejected" \in DOMAIN resp
       /\ ~resp.rejected
       /\ resp.ok
       /\ "items" \in DOMAIN resp.body
       /\ Len(resp.body.items) > 0
       /\ "forecasts" \in DOMAIN resp.body.items[1]
    THEN resp.body.items[1].forecasts
    ELSE << >>

RequestFailed(resp) == resp \in {NetworkError, HttpError}

\* This step settles the forecast request of call i.
ForecastSettlesAt(i) ==
    /\ i \in 1..Len(calls)
    /\ Len(calls') = Len(calls)
    /\ calls[i].forecast = Pending
    /\ calls'[i].forecast # Pending

\* The entry stored under 'weatherForecast'.
StoredForecast(item) == loadFromStorage(item, "weatherForecast", "none").returned

\* C1: when the primary forecast request rejects or answers non-OK, the step
\* that settles it leaves the store as it was, and the call's continuation
\* renders the failure message with its Retry control, again without
\* touching the store, whatever the secondary request settled with.
C1_PrimaryFailureRendersFailure ==
    [][\A i \in 1..Len(calls) :
          /\ (ForecastSettlesAt(i) /\ RequestFailed(calls'[i].forecast))
                => localStorage' = localStorage
          /\ (Joinable(i) /\ RequestFailed(calls[i].forecast))
                => /\ weatherWidget'.tag = "failure"
                   /\ weatherWidget'.retry
                   /\ localStorage' = localStorage]_vars

\* A first call has ended in the failure render and the store was never
\* written.
C1_Witness ==
    /\ initialized
    /\ calls = << >>
    /\ weatherWidget = FailureRender
    /\ localStorage = Null

\* C2 (as claimed): a call that is bound to end in the failure render
\* because of its primary response (rejected, non-OK, items missing or
\* empty, first item without forecasts) does not change the store.
C2_FailureLeavesStore ==
    [][\A i \in 1..Len(calls) :
          (ForecastSettlesAt(i) /\ DaysOf(calls'[i].forecast) = << >>)
              => localStorage' = localStorage]_vars

\* C3: when the secondary request rejects or answers non-OK and the primary
\* carries at least one forecast day, the continuation renders success,
\* without the current-temperature field, and with the recommendation of the
\* first forecast day.
C3_SecondaryFailureDegrades ==
    [][\A i \in 1..Len(calls) :
          (/\ Joinable(i)
           /\ RequestFailed(calls[i].temp)
           /\ DaysOf(calls[i].forecast) # << >>)
              => /\ weatherWidget'.tag = "success"
                 /\ weatherWidget'.currentTemp = << >>
                 /\ weatherWidget'.recommendation =
                        getCleanupRecommendation(DaysOf(calls[i].forecast)[1])
                 /\ (DaysOf(calls[i].forecast)[1].temperature.high > HeatThreshold
                     /\ DaysOf(calls[i].forecast)[1].forecast = "Fair & Warm")
                        => weatherWidget'.recommendation = HeatMessage]_vars

\* A call whose secondary request failed and whose primary carries a hot,
\* fair first day is about to render.
C3_Witness ==
    \E i \in 1..Len(calls) :
        /\ Joinable(i)
        /\ RequestFailed(calls[i].temp)
        /\ DaysOf(calls[i].forecast) # << >>
        /\ DaysOf(calls[i].forecast)[1].forecast = "Fair & Warm"

\* C7: a success render shows one card per forecast day of the call's
\* primary payload, in the payload's order, the first labelled 'Today' and
\* every later one labelled with a weekday; the date a card shows is the
\* day's own date or, on a host west of UTC, the day before it.
C7_CardsFollowPayload ==
    [][\A i \in 1..Len(calls) :
          (Joinable(i) /\ weatherWidget'.tag = "success")
              => LET days == DaysOf(calls[i].forecast)
                     cards == weatherWidget'.cards
                 IN  /\ Len(days) >= 1
                     /\ Len(cards) = Len(days)
                     /\ \A k \in 1..Len(days) :
                           /\ cards[k].desc = days[k].forecast
                           /\ cards[k].humidity = days[k].relative_humidity.high
                           /\ cards[k].date \in
                                 {<<days[k].date, "Dec">>,
                                  IF days[k].date = 1 THEN <<30, "Nov">>
                                  ELSE <<days[k].date - 1, "Dec">>}
                           /\ cards[k].high = days[k].temperature.high
                           /\ cards[k].low = days[k].temperature.low
                     /\ cards[1].day = "Today"
                     /\ \A k \in 2..Len(days) :
                           /\ cards[k].day # "Today"
                           /\ cards[k].day \in {WeekdayNames[n] : n \in 1..7}]_vars

\* A success render with more than one card is on screen: the first is
\* 'Today', the second is Saturday 6 December.
C7_Witness ==
    /\ weatherWidget.tag = "success"
    /\ Len(weatherWidget.cards) >= 2
    /\ weatherWidget.cards[1].day = "Today"
    /\ weatherWidget.cards[2].day = "Sat"
    /\ weatherWidget.cards[2].date = <<6, "Dec">>

\* C8 (as claimed): when a call ends in the success render, the store holds
\* under 'weatherForecast' the primary payload that call fetched.
C8_SuccessStoresOwnPayload ==
    [][\A i \in 1..Len(calls) :
          (Joinable(i) /\ weatherWidget'.tag = "success")
              => StoredForecast(localStorage') = calls[i].forecast.body]_vars

\* The cards of a stored payload: << >> when it carries no forecast list.
CardsOfPayload(payload) ==
    IF /\ "items" \in DOMAIN payload
       /\ Len(payload.items) > 0
       /\ "forecasts" \in DOMAIN payload.items[1]
    THEN forecastCards(payload.items[1].forecasts)
    ELSE << >>

\* C9 (as claimed): once no call is in flight, a forecast on screen is the
\* forecast persisted under 'weatherForecast' and held in
\* appState.currentWeather.
C9_ShownIsPersisted ==
    (calls = << >> /\ weatherWidget.tag = "success")
        => /\ weatherWidget.cards = CardsOfPayload(StoredForecast(localStorage))
           /\ weatherWidget.cards = CardsOfPayload(currentWeather)

\* C10: starting a call appends a frame with two pending requests of its
\* own and leaves every call in flight as it is; a call in flight is never
\* dropped or reset, it only settles its requests and then joins; the widget
\* changes only when a call joins, and then to that call's result, whatever
\* its place in the start order.
C10_LastJoinWins ==
    [][/\ Len(calls') > Len(calls)
            => /\ calls' = Append(calls, NewCall)
               /\ weatherWidget' = weatherWidget
       /\ \A i \in 1..Len(calls) :
            IF Joinable(i)
            THEN /\ calls' = RemoveAt(calls, i)
                 /\ weatherWidget' =
                        displayWeatherRender(fetchWeatherForecast(calls[i].forecast),
                                             fetchCurrentTemp(calls[i].temp))
            ELSE MicrotaskQueued
                 \/ /\ i <= Len(calls')
                    /\ calls'[i].forecast = calls[i].forecast
                          \/ calls[i].forecast = Pending
                    /\ calls'[i].temp = calls[i].temp
                          \/ calls[i].temp = Pending
       /\ weatherWidget' # weatherWidget => MicrotaskQueued]_vars

\* Two calls are in flight and the one started later has both requests
\* settled while the earlier one has not: the later call joins first and the
\* earlier call's render will be the one left on screen.
C10_Witness ==
    /\ Len(calls) = 2
    /\ Settled(calls[2])
    /\ ~Settled(calls[1])
    /\ weatherWidget.tag = "failure"

(***************************************************************************)
(* Properties of getCleanupRecommendation, stated on the words of the      *)
(* condition text.                                                         *)
(***************************************************************************)
HasWord(words, set) == \E k \in 1..Len(words) : words[k] \in set

\* 'thunder' is mentioned, or 'heavy' is directly followed by 'rain'
MentionsSevere(words) ==
    \/ HasWord(words, {"Thundery"})
    \/ \E k \in 1..(Len(words) - 1) :
          words[k] \in {"Heavy", "HEAVY"} /\ words[k + 1] = "Rain"

MentionsRain(words) == HasWord(words, {"Rain", "Shower"})
MentionsFairOrSunny(words) == HasWord(words, {"Fair", "Sunny", "SUNNY"})
MentionsClearOrSunny(words) == HasWord(words, {"Clear", "Sunny", "SUNNY"})

Messages ==
    {SevereMessage, GearMessage, HeatMessage, PerfectMessage, DefaultMessage}

\* C4: every call returns exactly one of the five messages, that of the
\* first rule that matches in the order severe, rain or shower, heat,
\* fair or sunny, default, whatever the letter case of the text.
C4_FirstMatchingRule ==
    recOutput # << >> =>
        /\ Len(recOutput) = 1
        /\ recOutput[1] \in Messages
        /\ recOutput[1] =
              IF MentionsSevere(recInput.words) THEN SevereMessage
              ELSE IF MentionsRain(recInput.words) THEN GearMessage
              ELSE IF recInput.high > HeatThreshold THEN HeatMessage
              ELSE IF MentionsFairOrSunny(recInput.words) THEN PerfectMessage
              ELSE DefaultMessage
        /\ (HasWord(recInput.words, {"Thundery"})
            /\ HasWord(recInput.words, {"Sunny", "SUNNY"}))
              => recOutput[1] = SevereMessage
        /\ (recInput.words \in {<<"Clear">>, <<"Sunny">>} /\ recInput.high = 34)
              => recOutput[1] = HeatMessage

\* A text with both thunder and sunny, on a hot day, has been answered with
\* the severe-weather message.
C4_Witness ==
    /\ recOutput = << SevereMessage >>
    /\ HasWord(recInput.words, {"Thundery"})
    /\ HasWord(recInput.words, {"SUNNY"})
    /\ recInput.high = 34

HeavyRainShower29 ==
    /\ recInput # Null
    /\ recInput.words = <<"Heavy", "Rain", "Shower">>
    /\ recInput.high = 29
    /\ recOutput # << >>

\* C5 (as claimed): "Heavy Rain Shower" with high 29 gets the gear-warning
\* message.
C5_HeavyRainShowerIsGear == HeavyRainShower29 => recOutput[1] = GearMessage

\* C5 (amended): "Heavy Rain Shower" with high 29 gets the severe-weather
\* message, the text containing 'heavy rain'; it gets neither the heat
\* warning nor the gear warning.
C5_HeavyRainShowerIsSevere == HeavyRainShower29 => recOutput[1] = SevereMessage

\* "Heavy Rain Shower" at 29 has been answered with the severe-weather
\* message.
C5_Witness == HeavyRainShower29 /\ recOutput = << SevereMessage >>

\* The text mentions no storm, rain or shower and the day is not above the
\* heat threshold.
CalmAndNotHot ==
    /\ recInput # Null
    /\ recOutput # << >>
    /\ ~MentionsSevere(recInput.words)
    /\ ~MentionsRain(recInput.words)
    /\ recInput.high <= HeatThreshold

\* C6 (as claimed): a calm, not hot text that mentions clear or sunny gets
\* the 'perfect weather' message.
C6_ClearOrSunnyIsPerfect ==
    (CalmAndNotHot /\ MentionsClearOrSunny(recInput.words))
        => recOutput[1] = PerfectMessage

\* C6 (amended): a calm, not hot text that mentions fair or sunny gets the
\* 'perfect weather' message, not the default one.
C6_FairOrSunnyIsPerfect ==
    (CalmAndNotHot /\ MentionsFairOrSunny(recInput.words))
        => recOutput[1] = PerfectMessage

\* "Cloudy Fair" at the heat threshold itself has been answered with the
\* 'perfect weather' message.
C6_Witness ==
    /\ CalmAndNotHot
    /\ recInput.words = <<"Cloudy", "Fair">>
    /\ recInput.high = HeatThreshold
    /\ recOutput = << PerfectMessage >>

(***************************************************************************)
(* saveToStorage and loadFromStorage called directly, on the two keys the  *)
(* application uses and on JSON values of every type.                      *)
(***************************************************************************)
StoreKeys == {"userLocation", "weatherForecast"}

Location(lat, lon) == [lat |-> lat, lon |-> lon]

StoreValues ==
    {Null, JSONNumber(0), JSONNumber(7), JSONBoolean(FALSE), JSONBoolean(TRUE),
     JSONString(""), JSONString("dark"), Location(13, 1038), ForecastPayload(1)}

InitStore ==
    /\ PageInit
    /\ RecIdle
    /\ SeqIdle
    /\ RestIdle
    /\ HostInit

\* saveToStorage(key, data)
StoreSave(key, data, fault) ==
    LET saved == saveToStorage(localStorage, key, data, fault)
    IN  /\ ~saved.threw
        /\ localStorage' = saved.item
        /\ storeOp' = [key |-> key, value |-> data, returned |-> saved.returned,
                       loaded |-> << >>]
        /\ UNCHANGED <<envVars, initialized, currentWeather, weatherWidget, calls,
                       eventsGrid, recVars, seqVars, uiVars, navVars>>

\* loadFromStorage(key), for the key just saved
StoreLoad ==
    /\ storeOp # Null
    /\ storeOp.loaded = << >>
    /\ storeOp' = [storeOp EXCEPT
                      !.loaded = << loadFromStorage(localStorage, storeOp.key,
                                                    "none").returned >>]
    /\ UNCHANGED <<envVars, pageVars, recVars, seqVars, uiVars, navVars>>

NextStore ==
    \/ \E key \in StoreKeys, data \in StoreValues, fault \in StorageFaults :
          StoreSave(key, data, fault)
    \/ StoreLoad

SpecStore == InitStore /\ [][NextStore]_vars

(***************************************************************************)
(* The buttons, the geolocation lookup, the toast and its timers.  The     *)
(* handlers are attached by initApp.  Time is followed in seconds; a timer *)
(* runs when it is due.  The weather requests of initApp stay pending.     *)
(***************************************************************************)
Positions == {Location(13, 1038), Location(14, 1039)}

\* Time passes, unless a timer is due.
Tick ==
    /\ initialized
    /\ now < MaxTime
    /\ \A k \in 1..Len(timers) : timers[k] > now
    /\ eventsGrid.timer => now < EventsDelay
    /\ now' = now + 1
    /\ UNCHANGED <<envVars, pageVars, recVars, seqVars, storeVars, navVars,
                   userLocation, geoRequests, toast, timers>>

\* The k-th pending timer runs, the first that is due: 'show' is removed.
HideTimer(k) ==
    /\ timers[k] <= now
    /\ \A j \in 1..(k - 1) : timers[j] > now
    /\ timers' = RemoveAt(timers, k)
    /\ toast' = [toast EXCEPT !.shown = FALSE]
    /\ UNCHANGED <<envVars, pageVars, recVars, seqVars, storeVars, navVars,
                   userLocation, geoRequests, now>>

\* Click on .toast-close
ClickToastClose ==
    /\ initialized
    /\ toast' = [toast EXCEPT !.shown = FALSE, !.closed = TRUE]
    /\ UNCHANGED <<envVars, pageVars, recVars, seqVars, storeVars, navVars,
                   userLocation, geoRequests, timers, now>>

\* A click whose handler only raises a toast.
ClickShowsToast(message) ==
    /\ initialized
    /\ now < MaxTime
    /\ Len(timers) < MaxTimers
    /\ toast' = showToast(Ui, message, DefaultDuration).toast
    /\ timers' = showToast(Ui, message, DefaultDuration).timers
    /\ UNCHANGED <<envVars, pageVars, recVars, seqVars, storeVars, navVars,
                   userLocation, geoRequests, now>>

\* handleCreateEvent
ClickCreateEvent == ClickShowsToast("Event creation coming soon!")

\* Click on #viewAllEventsBtn
ClickViewAllEvents == ClickShowsToast("Showing all events...")

\* handleJoinEvent, on the button of a rendered event card
ClickJoinEvent ==
    /\ eventsGrid.cards # << >>
    /\ ClickShowsToast("Successfully joined the cleanup event!")

\* handleFindCleanups up to its await.  Without navigator.geolocation the
\* promise is rejected at once and the catch block raises the second toast
\* before anything else runs.
ClickFindCleanups(supported) ==
    LET getting == showToast(Ui, "Getting your location...", DefaultDuration)
        unable == showToast(getting, "Unable to access location.", DefaultDuration)
    IN  /\ initialized
        /\ now < MaxTime
        /\ geoRequests < MaxGeoInFlight
        /\ Len(IF supported THEN getting.timers ELSE unable.timers) <= MaxTimers
        /\ IF supported
           THEN /\ geoRequests' = geoRequests + 1
                /\ toast' = getting.toast
                /\ timers' = getting.timers
           ELSE /\ geoRequests' = geoRequests
                /\ toast' = unable.toast
                /\ timers' = unable.timers
        /\ UNCHANGED <<envVars, pageVars, recVars, seqVars, storeVars, navVars, userLocation, now>>

\* The success callback of getCurrentPosition, then the rest of
\* handleFindCleanups.
GeolocationSuccess(position) ==
    LET acquired == showToast(Ui, "Location acquired! Loading cleanups...",
                              DefaultDuration)
    IN  /\ geoRequests > 0
        /\ Len(timers) < MaxTimers
        /\ geoRequests' = geoRequests - 1
        /\ userLocation' = position
        /\ localStorage' = saveToStorage(localStorage, "userLocation", position,
                                         "none").item
        /\ toast' = acquired.toast
        /\ timers' = acquired.timers
        /\ UNCHANGED <<envVars, initialized, currentWeather, weatherWidget, calls,
                       eventsGrid, recVars, seqVars, storeVars, navVars, now>>

\* The error callback of getCurrentPosition, then the catch block of
\* handleFindCleanups.
GeolocationError ==
    LET unable == showToast(Ui, "Unable to access location.", DefaultDuration)
    IN  /\ geoRequests > 0
        /\ Len(timers) < MaxTimers
        /\ geoRequests' = geoRequests - 1
        /\ toast' = unable.toast
        /\ timers' = unable.timers
        /\ UNCHANGED <<envVars, pageVars, recVars, seqVars, storeVars, navVars, userLocation, now>>

NavLinks == 1..MaxLinks

BooleanAttribute(b) == IF b THEN "true" ELSE "false"

\* Click on .nav-toggle
ClickNavToggle ==
    /\ initialized
    /\ navListActive' = ~navListActive
    /\ ariaExpanded' = BooleanAttribute(navListActive')
    /\ UNCHANGED <<envVars, pageVars, recVars, seqVars, storeVars, uiVars, activeLinks>>

\* Click on a nav link
ClickNavLink(link) ==
    /\ initialized
    /\ activeLinks' = (activeLinks \ NavLinks) \cup {link}
    /\ navListActive' = FALSE
    /\ UNCHANGED <<envVars, pageVars, recVars, seqVars, storeVars, uiVars, ariaExpanded>>

NextUi ==
    \/ InitApp("none")
    \/ Tick
    \/ \E k \in 1..Len(timers) : HideTimer(k)
    \/ (now >= EventsDelay /\ DisplayEventsTimer)
    \/ ClickToastClose
    \/ ClickCreateEvent
    \/ ClickViewAllEvents
    \/ ClickJoinEvent
    \/ \E supported \in BOOLEAN : ClickFindCleanups(supported)
    \/ \E position \in Positions : GeolocationSuccess(position)
    \/ GeolocationError
    \/ ClickNavToggle
    \/ \E link \in NavLinks : ClickNavLink(link)

SpecUi == Init /\ [][NextUi]_vars

(***************************************************************************)
(* Further properties of the weather pipeline.                             *)
(***************************************************************************)
\* C11: a call starts only in initApp (widget still in its initial state)
\* or by a Retry click on the failure render; the step of a timer starts
\* none; a call ends by leaving the widget in exactly one of the success and
\* failure renders; no call starts while the success render is shown.
C11_FetchOnlyOnInitOrRetry ==
    [][/\ Len(calls') > Len(calls)
            => /\ InitApp("none") \/ ClickRetry
               /\ weatherWidget.tag \in {"initial", "failure"}
               /\ weatherWidget.tag = "initial" => ~initialized
               /\ weatherWidget.tag = "failure" => ClickRetry
       /\ (eventsGrid.timer /\ ~eventsGrid'.timer) => calls' = calls
       /\ \A i \in 1..Len(calls) :
            (calls[i].forecast # Pending /\ calls[i].temp # Pending)
                => /\ calls' = RemoveAt(calls, i)
                   /\ weatherWidget'.tag \in {"success", "failure"}
       /\ weatherWidget'.tag \in {"initial", "success", "failure"}]_vars

\* The widget shows the failure render, the timer of initApp has fired and
\* no call is in flight.
C11_Witness ==
    /\ weatherWidget.tag = "failure"
    /\ calls = << >>
    /\ ~eventsGrid.timer
    /\ eventsGrid.cards = getMockEvents

\* C12: a call starts with both of its requests pending; a step that settles
\* one request of a call while its other request is pending leaves the
\* widget alone; the widget changes, and a call ends, only in the step of a
\* call whose two requests have both settled.
C12_RenderAfterBothSettle ==
    [][/\ Len(calls') > Len(calls)
            => /\ calls'[Len(calls')].forecast = Pending
               /\ calls'[Len(calls')].temp = Pending
       /\ (weatherWidget' # weatherWidget \/ Len(calls') < Len(calls))
            => \E i \in 1..Len(calls) :
                  /\ calls[i].forecast # Pending
                  /\ calls[i].temp # Pending
                  /\ calls' = RemoveAt(calls, i)
       /\ (\E i \in 1..Len(calls) :
              /\ i <= Len(calls')
              /\ calls'[i].forecast # calls[i].forecast
                    \/ calls'[i].temp # calls[i].temp
              /\ Len(calls') = Len(calls))
            => weatherWidget' = weatherWidget]_vars

\* The forecast request of the first call has failed while its temperature
\* request is still pending, and the widget has not been touched.
C12_Witness ==
    /\ Len(calls) = 1
    /\ calls[1].forecast \in {NetworkError, HttpError}
    /\ calls[1].temp = Pending
    /\ weatherWidget = InitialWidget

\* C13: of two calls run one after the other against the same responses,
\* the second leaves the widget exactly as the first did.
C13_SameResponsesSameRender ==
    Len(renders) = 2 => renders[1] = renders[2]

\* Two calls have run against a store that already held a forecast; the
\* second, like the first, rendered a two-day forecast.
C13_Witness ==
    /\ Len(renders) = 2
    /\ renders[2].tag = "success"
    /\ Len(renders[2].cards) = 2
    /\ currentWeather # ForecastPayload(1)

\* Two failing calls have been run and observed.
C13_FailureWitness ==
    /\ Len(renders) = 2
    /\ renders[1].tag = "failure"

\* C14: whatever the store does (item corrupt, getItem or setItem throwing),
\* fetchWeatherForecast resolves with the data its response carries and
\* appState.currentWeather receives it; the call renders what its two
\* responses determine; a corrupt item is left as it is.
C14_StoreFailureAbsorbed ==
    [][/\ \A i \in 1..Len(calls) :
            /\ ForecastSettlesAt(i)
                  => /\ calls'[i].forecastData = fetchWeatherForecast(calls'[i].forecast)
                     /\ ResponseHasData(calls'[i].forecast)
                           => currentWeather' = calls'[i].forecast.body
            /\ Joinable(i)
                  => weatherWidget' =
                        displayWeatherRender(fetchWeatherForecast(calls[i].forecast),
                                             fetchCurrentTemp(calls[i].temp))
       /\ localStorage = Corrupt => localStorage' = Corrupt]_vars

\* A call has rendered success although nothing could be persisted.
C14_Witness ==
    /\ weatherWidget.tag = "success"
    /\ calls = << >>
    /\ currentWeather # Null
    /\ StoredForecast(localStorage) = Null

\* The secondary answered OK without readings: items missing, items empty,
\* or a first item without a readings list.
TempWithoutReadings(resp) ==
    resp \in {HttpOk(TempNoItems), HttpOk(TempEmptyItems), HttpOk(TempNoReadings)}

\* C16 (as claimed): when the secondary answers OK without readings and the
\* primary carries at least one forecast day, the call renders success
\* without the current-temperature field.
C16_NoReadingsDegrades ==
    [][\A i \in 1..Len(calls) :
          (/\ Joinable(i)
           /\ TempWithoutReadings(calls[i].temp)
           /\ DaysOf(calls[i].forecast) # << >>)
              => /\ weatherWidget'.tag = "success"
                 /\ weatherWidget'.currentTemp = << >>]_vars

\* The readings of an OK secondary response: << >> when it has none.
ReadingsOf(resp) ==
    IF /\ "rejected" \in DOMAIN resp
       /\ ~resp.rejected
       /\ resp.ok
       /\ "items" \in DOMAIN resp.body
       /\ Len(resp.body.items) > 0
       /\ "readings" \in DOMAIN resp.body.items[1]
    THEN resp.body.items[1].readings
    ELSE << >>

\* C17 (as claimed): when the secondary carries readings and the call
\* renders success, the current temperature shown is the first reading
\* (rounded), whatever its value.
C17_FirstReadingShown ==
    [][\A i \in 1..Len(calls) :
          (/\ Joinable(i)
           /\ ReadingsOf(calls[i].temp) # << >>
           /\ weatherWidget'.tag = "success")
              => weatherWidget'.currentTemp =
                    << MathRound(ReadingsOf(calls[i].temp)[1].value) >>]_vars

\* C18 (as claimed): loadFromStorage(k) after a successful
\* saveToStorage(k, v) returns v, and the save leaves every other key of
\* the stored object as it was.
C18_SaveThenLoad ==
    [][/\ (storeOp # Null /\ storeOp.returned
              /\ storeOp.loaded = << >> /\ storeOp'.loaded # << >>)
            => storeOp'.loaded[1] = storeOp.value
       /\ (storeOp' # storeOp /\ storeOp'.loaded = << >> /\ storeOp'.returned)
            => \A key \in StoreKeys \ {storeOp'.key} :
                  /\ key \in DOMAIN StorageData(localStorage')
                        <=> key \in DOMAIN StorageData(localStorage)
                  /\ key \in DOMAIN StorageData(localStorage)
                        => StorageData(localStorage')[key]
                              = StorageData(localStorage)[key]]_vars

StoredLocation(item) == loadFromStorage(item, "userLocation", "none").returned

\* C15 (as claimed): once appState.userLocation is set, no step changes it
\* or the 'userLocation' entry of the store.
C15_LocationCapturedOnce ==
    [][userLocation # Null
          => /\ userLocation' = userLocation
             /\ StoredLocation(localStorage') = StoredLocation(localStorage)]_vars

\* C20 (as claimed): a toast that the user has not closed is visible until
\* the timer of the showToast call that raised it is due; and with no timer
\* pending the toast is hidden.
C20_ToastKeepsItsDuration ==
    /\ (now < toast.due /\ ~toast.closed) => toast.shown
    /\ timers = << >> => ~toast.shown

\* C19 (as claimed): aria-expanded of the toggle says whether the menu has
\* class 'active', and at most one nav link has class 'active'.
C19_AriaFollowsMenu ==
    /\ (ariaExpanded = "true") <=> navListActive
    /\ Cardinality(activeLinks) <= 1

====
